---------------------------- MODULE Spec2Model ----------------------------
(***************************************************************************)
(* Model of src/Main.py: the TelegramUserbot broadcast engine              *)
(* (get_all_groups, send_to_all_groups_once, broadcast_with_delay) and the *)
(* interactive menu of main() that drives it.                              *)
(*                                                                         *)
(* The Telegram client is the environment: the dialog list it enumerates,  *)
(* the outcome of every send_message call and the loss of the session are  *)
(* nondeterministic choices.  Every await of the code is a step of the     *)
(* model, so a send "in flight" and a sleep "in progress" are states.      *)
(***************************************************************************)
EXTENDS Integers, Sequences, FiniteSets, TLC

(***************************************************************************)
(* Bounds of the model                                                     *)
(***************************************************************************)
MaxDialogs == 3        \* longest dialog list the provider enumerates
MaxRounds == 3         \* largest rounds argument of a direct call

(***************************************************************************)
(* The provider's entities (telethon.tl.types): a dialog's entity is a     *)
(* User, a Chat or a Channel; a Channel carries megagroup and broadcast.   *)
(***************************************************************************)
Entity(i, c, m, b) == [id |-> i, cls |-> c, megagroup |-> m, broadcast |-> b]

Entities ==
    { Entity(1, "Chat", FALSE, FALSE),
      Entity(2, "Channel", TRUE, FALSE),
      Entity(3, "Channel", FALSE, TRUE),
      Entity(4, "Channel", FALSE, FALSE),
      Entity(5, "Channel", TRUE, TRUE),
      Entity(6, "User", FALSE, FALSE) }

SeqsUpTo(S, n) == UNION { [1..k -> S] : k \in 0..n }

Injective(s) == \A i, j \in 1..Len(s) : i # j => s[i].id # s[j].id

\* what iter_dialogs can enumerate: every dialog once
DialogLists == { s \in SeqsUpTo(Entities, MaxDialogs) : Injective(s) }

\* the dialogs of the account the broadcasts run on: every one is a group of
\* some kind, so a catalog of MaxDialogs destinations is reached
GroupEntities == { e \in Entities : e.id \in {1, 2, 4} }
GroupDialogLists == { s \in SeqsUpTo(GroupEntities, MaxDialogs) : Injective(s) }

\* FloodWaitError.seconds
FloodWaits == {0, 5}

\* arguments of a direct call of broadcast_with_delay
RoundsArgs == -1..MaxRounds
DelayArgs == {0, 10}
ExcludeArgs == { {}, {2}, {1, 4} }

\* what the user can type at a numeric prompt (after strip()): "sup2" stands for
\* a character such as U+00B2, which str.isdigit accepts and int() rejects
Digits == {"0", "1", "2", "3", "4", "5", "6", "7", "8", "9"}
Chars == Digits \cup {"sup2", "-", "a"}
DigitValue(c) == CASE c = "0" -> 0 [] c = "1" -> 1 [] c = "2" -> 2 [] c = "3" -> 3
                   [] c = "4" -> 4 [] c = "5" -> 5 [] c = "6" -> 6 [] c = "7" -> 7
                   [] c = "8" -> 8 [] c = "9" -> 9

\* str.isdigit(): not empty and every character is a digit character
IsDigit(s) == Len(s) > 0 /\ \A i \in 1..Len(s) : s[i] \in Digits \cup {"sup2"}

\* int(s) raises ValueError
IntRaises(s) == Len(s) = 0 \/ \E i \in 1..Len(s) : s[i] \notin Digits

\* int(s) for a string of decimal digits
RECURSIVE ParseInt(_)
ParseInt(s) ==
    IF Len(s) = 0 THEN 0
    ELSE 10 * ParseInt(SubSeq(s, 1, Len(s) - 1)) + DigitValue(s[Len(s)])

\* str(n) for 0 <= n < 100
DigitChar(d) == CHOOSE c \in Digits : DigitValue(c) = d
Numeral(n) == IF n < 10 THEN << DigitChar(n) >>
              ELSE << DigitChar(n \div 10), DigitChar(n % 10) >>

\* inputs that are not a decimal number
OtherInputs == { << >>, << "a" >>, << "-", "1" >>, << "sup2" >>, << "1", "sup2" >> }

\* the inputs tried at the prompts: the numbers within the model's bounds,
\* one with a leading zero, and the inputs that are no number
RoundsInputs == OtherInputs \cup { Numeral(n) : n \in 0..MaxRounds } \cup { << "0", "2" >> }
DelayInputs == OtherInputs \cup { Numeral(n) : n \in DelayArgs }

MaxMenus == 2          \* menu choices made in one run of main

None == "None"

VARIABLES
    pc,                 \* position of the engine: which await it is at
    connected,          \* the provider session is alive
    dialogs,            \* the dialog list the provider enumerates
    di,                 \* dialogs already yielded by iter_dialogs
    acc,                \* get_all_groups: the local list "groups"
    gcaller,            \* who called get_all_groups
    gret,               \* what get_all_groups returned
    rounds, delay_between_rounds, exclude_ids,   \* broadcast_with_delay arguments
    round_num, total_success, total_failed,      \* broadcast_with_delay locals
    ret,                \* value broadcast_with_delay returned
    summary,            \* the FINAL SUMMARY it logged
    groups,             \* send_to_all_groups_once: the catalog snapshot
    gi,                 \* index of the current group of the for loop
    successful_sends, failed_sends,
    mpc,                \* position of main
    menus,              \* menu choices made
    menu_errors,        \* exceptions caught by the menu loop (line 319)
    stops,              \* calls of bot.stop()
    \* history of the run, read only by the properties
    log,                \* events of the current round: the sends issued, the
                        \* FloodWaitErrors raised and the sleeps they caused
    passes,             \* calls of send_to_all_groups_once in this broadcast
    enums,              \* calls of get_all_groups made by this broadcast
    pauses,             \* inter-round sleeps of this broadcast
    sum_success, sum_failed,   \* sums of what the rounds returned
    retry_flood,        \* seconds of the FloodWaitError that the retry raised, as
                        \* a set, until the next send of the round has its outcome
    enumFailed,         \* the running or last enumeration raised
    fatal               \* the provider raised a session failure in this broadcast

provVars == << connected, dialogs, fatal >>
enumVars == << di, acc, gcaller, gret, enumFailed >>
argVars == << rounds, delay_between_rounds, exclude_ids >>
bcastVars == << round_num, total_success, total_failed, ret, summary, passes,
                enums, pauses, sum_success, sum_failed >>
sendVars == << groups, gi, successful_sends, failed_sends, log, retry_flood >>
mainVars == << mpc, menus, menu_errors, stops >>

vars == << pc, provVars, enumVars, argVars, bcastVars, sendVars, mainVars >>

SendEv(i, r) == [ev |-> "send", idx |-> i, id |-> groups[i].id, retry |-> r, dur |-> 0]
FloodEv(i, w) == [ev |-> "flood", idx |-> i, id |-> groups[i].id, retry |-> FALSE, dur |-> w]
SleepEv(i, d) == [ev |-> "sleep", idx |-> i, id |-> groups[i].id, retry |-> FALSE, dur |-> d]

\* the provider raises: an ordinary error, or the session itself has died
\* (then every later call raises too)
ProviderRaises ==
    \E lost \in BOOLEAN :
        /\ (~connected => lost)
        /\ connected' = (connected /\ ~lost)
        /\ fatal' = (fatal \/ lost)

(***************************************************************************)
(* get_all_groups (lines 36-72)                                            *)
(***************************************************************************)
\* mutant: a channel is dropped as soon as its broadcast flag is set
Classify_BroadcastFirst(e) ==
    IF e.cls \in {"Channel", "Chat"}
    THEN IF e.cls = "Channel"
         THEN IF ~e.broadcast
              THEN << [id |-> e.id,
                       type |-> IF e.megagroup THEN "supergroup" ELSE "channel"] >>
              ELSE << >>
         ELSE << [id |-> e.id, type |-> "group"] >>
    ELSE << >>

\* mutant: the test of line 52 is missing: every channel is taken
Classify_EveryChannel(e) ==
    IF e.cls \in {"Channel", "Chat"}
    THEN IF e.cls = "Channel"
         THEN << [id |-> e.id,
                  type |-> IF e.megagroup THEN "supergroup" ELSE "channel"] >>
         ELSE << [id |-> e.id, type |-> "group"] >>
    ELSE << >>

\* lines 49-65: the catalog entry of one dialog, or nothing
Classify(e) ==
    IF e.cls \in {"Channel", "Chat"}
    THEN IF e.cls = "Channel"
         THEN IF e.megagroup \/ ~e.broadcast
              THEN << [id |-> e.id,
                       type |-> IF e.megagroup THEN "supergroup" ELSE "channel"] >>
              ELSE << >>
         ELSE << [id |-> e.id, type |-> "group"] >>
    ELSE << >>

\* mutant: the inter-round sleep also follows the last round
RoundReturn_PauseAlways(s, f) ==
    /\ total_success' = total_success + s
    /\ total_failed' = total_failed + f
    /\ pc' = "b_sleep"
    /\ pauses' = Append(pauses, delay_between_rounds)
    /\ UNCHANGED << round_num, ret, summary, passes, enums >>

\* mutant: the totals are overwritten ("=" for "+=")
RoundReturn_Overwrites(s, f) ==
    /\ total_success' = s
    /\ total_failed' = f
    /\ IF round_num < rounds
       THEN /\ pc' = "b_sleep"
            /\ pauses' = Append(pauses, delay_between_rounds)
       ELSE /\ pc' = "b_loop"
            /\ pauses' = pauses
    /\ UNCHANGED << round_num, ret, summary, passes, enums >>

\* lines 155-163: what follows the return of send_to_all_groups_once
RoundReturn(s, f) ==
    /\ total_success' = total_success + s
    /\ total_failed' = total_failed + f
    /\ IF round_num < rounds
       THEN /\ pc' = "b_sleep"
            /\ pauses' = Append(pauses, delay_between_rounds)
       ELSE /\ pc' = "b_loop"
            /\ pauses' = pauses
    /\ UNCHANGED << round_num, ret, summary, passes, enums >>

\* mutant: an empty catalog ends the broadcast
GroupsReturned_EmptyAborts(g) ==
    /\ gret' = g
    /\ CASE gcaller = "send" ->
              /\ groups' = g
              /\ gi' = 0
              /\ successful_sends' = 0
              /\ failed_sends' = 0
              /\ log' = log
              /\ retry_flood' = {}
              /\ pc' = IF g = << >> THEN "b_done" ELSE "s_loop"
              /\ UNCHANGED << sum_success, sum_failed, round_num, total_success,
                              total_failed, ret, summary, passes, enums, pauses >>
         [] gcaller = "list" ->
              /\ pc' = "l_done"
              /\ UNCHANGED << bcastVars, sendVars >>
         [] OTHER ->
              /\ pc' = "g_done"
              /\ UNCHANGED << bcastVars, sendVars >>

\* lines 85-94 and 172-185: the caller of get_all_groups receives the list g
GroupsReturned(g) ==
    /\ gret' = g
    /\ CASE gcaller = "send" ->
              /\ groups' = g
              /\ gi' = 0
              /\ successful_sends' = 0
              /\ failed_sends' = 0
              /\ log' = log
              /\ retry_flood' = {}
              /\ UNCHANGED << sum_success, sum_failed >>
              /\ IF g = << >>
                 THEN RoundReturn(0, 0)
                 ELSE /\ pc' = "s_loop"
                      /\ UNCHANGED << round_num, total_success, total_failed,
                                      ret, summary, passes, enums, pauses >>
         [] gcaller = "list" ->
              /\ pc' = "l_done"
              /\ UNCHANGED << bcastVars, sendVars >>
         [] OTHER ->
              /\ pc' = "g_done"
              /\ UNCHANGED << bcastVars, sendVars >>

\* line 47: iter_dialogs yields the next dialog
IterDialog ==
    /\ pc = "g_iter"
    /\ connected
    /\ di < Len(dialogs)
    /\ di' = di + 1
    /\ acc' = acc \o Classify(dialogs[di + 1])
    /\ UNCHANGED << pc, provVars, gcaller, gret, enumFailed, argVars, bcastVars,
                    sendVars, mainVars >>

\* lines 67-68: the enumeration is over, the list is returned
IterEnd ==
    /\ pc = "g_iter"
    /\ connected
    /\ di = Len(dialogs)
    /\ GroupsReturned(acc)
    /\ UNCHANGED << provVars, di, acc, gcaller, enumFailed, argVars, mainVars >>

\* mutant: the except clause returns the groups collected so far
IterRaise_ReturnsPartial ==
    /\ pc = "g_iter"
    /\ ProviderRaises
    /\ enumFailed' = TRUE
    /\ GroupsReturned(acc)
    /\ UNCHANGED << dialogs, di, acc, gcaller, argVars, mainVars >>

\* lines 70-72: the provider raises while enumerating
IterRaise ==
    /\ pc = "g_iter"
    /\ ProviderRaises
    /\ enumFailed' = TRUE
    /\ GroupsReturned(<< >>)
    /\ UNCHANGED << dialogs, di, acc, gcaller, argVars, mainVars >>

(***************************************************************************)
(* send_to_all_groups_once (lines 74-134)                                  *)
(***************************************************************************)
\* mutant: the exclusion test is missing
ForNext_NoExclusion ==
    /\ pc = "s_loop"
    /\ gi < Len(groups)
    /\ gi' = gi + 1
    /\ pc' = "s_send"
    /\ log' = Append(log, SendEv(gi + 1, FALSE))
    /\ UNCHANGED << provVars, enumVars, argVars, bcastVars, groups, retry_flood,
                    successful_sends, failed_sends, mainVars >>

\* lines 96-104: next group of the for loop: skipped, or the send is issued
ForNext ==
    /\ pc = "s_loop"
    /\ gi < Len(groups)
    /\ gi' = gi + 1
    /\ IF groups[gi + 1].id \in exclude_ids
       THEN /\ pc' = "s_loop"
            /\ log' = log
       ELSE /\ pc' = "s_send"
            /\ log' = Append(log, SendEv(gi + 1, FALSE))
    /\ UNCHANGED << provVars, enumVars, argVars, bcastVars, groups, retry_flood,
                    successful_sends, failed_sends, mainVars >>

\* lines 104-107: the send returned
SendOk ==
    /\ pc = "s_send"
    /\ connected
    /\ successful_sends' = successful_sends + 1
    /\ pc' = "s_loop"
    /\ retry_flood' = {}
    /\ UNCHANGED << provVars, enumVars, argVars, bcastVars, groups, gi,
                    failed_sends, log, mainVars >>

\* mutant: the sleep lasts e.seconds only
SendFloodWait_NoExtraSecond ==
    /\ pc = "s_send"
    /\ connected
    /\ \E w \in FloodWaits : log' = log \o << FloodEv(gi, w), SleepEv(gi, w) >>
    /\ pc' = "s_wait"
    /\ retry_flood' = {}
    /\ UNCHANGED << provVars, enumVars, argVars, bcastVars, groups, gi,
                    successful_sends, failed_sends, mainVars >>

\* mutant: the sleep and the retry are left to run on their own; the loop
\* goes on to the next group
SendFloodWait_NotAwaited ==
    /\ pc = "s_send"
    /\ connected
    /\ \E w \in FloodWaits : log' = log \o << FloodEv(gi, w), SleepEv(gi, w + 1) >>
    /\ pc' = "s_loop"
    /\ retry_flood' = {}
    /\ UNCHANGED << provVars, enumVars, argVars, bcastVars, groups, gi,
                    successful_sends, failed_sends, mainVars >>

\* lines 109-111: FloodWaitError: sleep e.seconds + 1
SendFloodWait ==
    /\ pc = "s_send"
    /\ connected
    /\ \E w \in FloodWaits : log' = log \o << FloodEv(gi, w), SleepEv(gi, w + 1) >>
    /\ pc' = "s_wait"
    /\ retry_flood' = {}
    /\ UNCHANGED << provVars, enumVars, argVars, bcastVars, groups, gi,
                    successful_sends, failed_sends, mainVars >>

\* line 115: the sleep is over, the retry is issued
RetrySend ==
    /\ pc = "s_wait"
    /\ log' = Append(log, SendEv(gi, TRUE))
    /\ pc' = "s_retry"
    /\ UNCHANGED << provVars, enumVars, argVars, bcastVars, groups, gi, retry_flood,
                    successful_sends, failed_sends, mainVars >>

\* lines 115-117: the retry returned
RetryOk ==
    /\ pc = "s_retry"
    /\ connected
    /\ successful_sends' = successful_sends + 1
    /\ pc' = "s_loop"
    /\ UNCHANGED << provVars, enumVars, argVars, bcastVars, groups, gi, retry_flood,
                    failed_sends, log, mainVars >>

\* mutant: a failed retry sleeps and retries again
RetryFail_RetriesAgain ==
    /\ pc = "s_retry"
    /\ ProviderRaises
    /\ pc' = "s_wait"
    /\ UNCHANGED << dialogs, enumVars, argVars, bcastVars, groups, gi, retry_flood,
                    successful_sends, failed_sends, log, mainVars >>

\* mutant: a FloodWaitError of the retry is slept out as well
RetryFail_WaitsAgain ==
    /\ pc = "s_retry"
    /\ ProviderRaises
    /\ failed_sends' = failed_sends + 1
    /\ pc' = "s_loop"
    /\ \/ /\ retry_flood' = {}
          /\ log' = log
       \/ \E w \in FloodWaits :
              /\ retry_flood' = {w}
              /\ log' = Append(log, SleepEv(gi, w + 1))
    /\ UNCHANGED << dialogs, enumVars, argVars, bcastVars, groups, gi,
                    successful_sends, mainVars >>

\* lines 118-120: the retry raised (a FloodWaitError included)
RetryFail ==
    /\ pc = "s_retry"
    /\ ProviderRaises
    /\ failed_sends' = failed_sends + 1
    /\ pc' = "s_loop"
    /\ retry_flood' \in {{}} \cup { {w} : w \in FloodWaits }
    /\ UNCHANGED << dialogs, enumVars, argVars, bcastVars, groups, gi,
                    successful_sends, log, mainVars >>

\* mutant: no except clause for ChatWriteForbiddenError: it leaves the
\* round and the broadcast
SendForbidden_Propagates ==
    /\ pc = "s_send"
    /\ connected
    /\ pc' = "b_done"
    /\ ret' = "raised"
    /\ UNCHANGED << provVars, enumVars, argVars, round_num, total_success,
                    total_failed, summary, passes, enums, pauses, sum_success,
                    sum_failed, sendVars, mainVars >>

\* lines 122-124: ChatWriteForbiddenError
SendForbidden ==
    /\ pc = "s_send"
    /\ connected
    /\ failed_sends' = failed_sends + 1
    /\ pc' = "s_loop"
    /\ retry_flood' = {}
    /\ UNCHANGED << provVars, enumVars, argVars, bcastVars, groups, gi,
                    successful_sends, log, mainVars >>

\* mutant: a ban is handled like a rate limit: a sleep, then a retry
SendBanned_Retries ==
    /\ pc = "s_send"
    /\ connected
    /\ log' = Append(log, SleepEv(gi, 1))
    /\ pc' = "s_wait"
    /\ retry_flood' = {}
    /\ UNCHANGED << provVars, enumVars, argVars, bcastVars, groups, gi,
                    successful_sends, failed_sends, mainVars >>

\* lines 126-128: UserBannedInChannelError
SendBanned ==
    /\ pc = "s_send"
    /\ connected
    /\ failed_sends' = failed_sends + 1
    /\ pc' = "s_loop"
    /\ retry_flood' = {}
    /\ UNCHANGED << provVars, enumVars, argVars, bcastVars, groups, gi,
                    successful_sends, log, mainVars >>

\* mutant: the failure is logged and not counted
SendOther_NotCounted ==
    /\ pc = "s_send"
    /\ ProviderRaises
    /\ pc' = "s_loop"
    /\ UNCHANGED << dialogs, enumVars, argVars, bcastVars, sendVars, mainVars >>

\* lines 130-132: any other Exception, a dead session included
SendOther ==
    /\ pc = "s_send"
    /\ ProviderRaises
    /\ failed_sends' = failed_sends + 1
    /\ pc' = "s_loop"
    /\ retry_flood' = {}
    /\ UNCHANGED << dialogs, enumVars, argVars, bcastVars, groups, gi,
                    successful_sends, log, mainVars >>

\* mutant: a pass with failures is started over until none is left
ForEnd_RestartsOnFailure ==
    /\ pc = "s_loop"
    /\ gi = Len(groups)
    /\ IF failed_sends > 0
       THEN /\ gi' = 0
            /\ successful_sends' = 0
            /\ failed_sends' = 0
            /\ log' = << >>
            /\ UNCHANGED << pc, bcastVars, groups >>
       ELSE /\ RoundReturn(successful_sends, failed_sends)
            /\ sum_success' = sum_success + successful_sends
            /\ sum_failed' = sum_failed + failed_sends
            /\ UNCHANGED << groups, gi, successful_sends, failed_sends, log >>
    /\ retry_flood' = {}
    /\ UNCHANGED << provVars, enumVars, argVars, mainVars >>

\* line 134: the for loop is over
ForEnd ==
    /\ pc = "s_loop"
    /\ gi = Len(groups)
    /\ RoundReturn(successful_sends, failed_sends)
    /\ sum_success' = sum_success + successful_sends
    /\ sum_failed' = sum_failed + failed_sends
    /\ retry_flood' = {}
    /\ UNCHANGED << provVars, enumVars, argVars, groups, gi, successful_sends,
                    failed_sends, log, mainVars >>

(***************************************************************************)
(* broadcast_with_delay (lines 136-168)                                    *)
(***************************************************************************)
\* no call of send_to_all_groups_once is active: its locals do not exist
NoSendFrame ==
    /\ groups' = << >>
    /\ gi' = 0
    /\ successful_sends' = 0
    /\ failed_sends' = 0
    /\ log' = << >>
    /\ retry_flood' = {}

\* no call of get_all_groups is active
NoEnumFrame ==
    /\ dialogs' = << >>
    /\ di' = 0
    /\ acc' = << >>
    /\ gret' = << >>
    /\ gcaller' = "send"
    /\ enumFailed' = FALSE

\* no call of broadcast_with_delay is active
NoBroadcastFrame ==
    /\ rounds' = 0
    /\ delay_between_rounds' = 0
    /\ exclude_ids' = {}
    /\ round_num' = 0
    /\ total_success' = 0
    /\ total_failed' = 0
    /\ ret' = "pending"
    /\ summary' = "none"
    /\ passes' = 0
    /\ enums' = 0
    /\ pauses' = << >>
    /\ sum_success' = 0
    /\ sum_failed' = 0
    /\ fatal' = FALSE

\* lines 146-149: the call, with its arguments
BroadcastCall(r, d, ex) ==
    /\ rounds' = r
    /\ delay_between_rounds' = d
    /\ exclude_ids' = ex
    /\ round_num' = 0
    /\ total_success' = 0
    /\ total_failed' = 0
    /\ ret' = "pending"
    /\ summary' = "none"
    /\ passes' = 0
    /\ enums' = 0
    /\ pauses' = << >>
    /\ sum_success' = 0
    /\ sum_failed' = 0
    /\ fatal' = FALSE
    /\ pc' = "b_loop"
    /\ NoSendFrame
    /\ NoEnumFrame

\* mutant: the catalog is resolved in the first round only and used again
RoundStart_ReusesCatalog ==
    /\ pc = "b_loop"
    /\ round_num < rounds
    /\ round_num' = round_num + 1
    /\ passes' = passes + 1
    /\ log' = << >>
    /\ dialogs' \in GroupDialogLists
    /\ IF round_num = 0
       THEN /\ enums' = enums + 1
            /\ enumFailed' = FALSE
            /\ di' = 0
            /\ acc' = << >>
            /\ gcaller' = "send"
            /\ pc' = "g_iter"
            /\ UNCHANGED << gi, successful_sends, failed_sends >>
       ELSE /\ gi' = 0
            /\ successful_sends' = 0
            /\ failed_sends' = 0
            /\ pc' = "s_loop"
            /\ UNCHANGED << enums, enumFailed, di, acc, gcaller >>
    /\ UNCHANGED << connected, fatal, gret, argVars, total_success, total_failed,
                    ret, summary, pauses, sum_success, sum_failed, groups, retry_flood,
                    mainVars >>

\* lines 151-154 and 85: next round: send_to_all_groups_once calls get_all_groups
RoundStart ==
    /\ pc = "b_loop"
    /\ round_num < rounds
    /\ round_num' = round_num + 1
    /\ passes' = passes + 1
    /\ enums' = enums + 1
    /\ log' = << >>
    /\ enumFailed' = FALSE
    /\ dialogs' \in GroupDialogLists
    /\ di' = 0
    /\ acc' = << >>
    /\ gcaller' = "send"
    /\ pc' = "g_iter"
    /\ UNCHANGED << connected, fatal, gret, argVars, total_success, total_failed,
                    ret, summary, pauses, sum_success, sum_failed, groups, gi, retry_flood,
                    successful_sends, failed_sends, mainVars >>

\* line 163: the inter-round sleep is over
PauseEnd ==
    /\ pc = "b_sleep"
    /\ pc' = "b_loop"
    /\ UNCHANGED << provVars, enumVars, argVars, bcastVars, sendVars, mainVars >>

\* lines 165-168: the summary is logged; the function has no return statement
BroadcastFinish ==
    /\ pc = "b_loop"
    /\ round_num >= rounds
    /\ summary' = [totalSuccess |-> total_success,
                   totalFailed |-> total_failed,
                   rounds |-> rounds]
    /\ ret' = None
    /\ pc' = "b_done"
    /\ NoSendFrame
    /\ NoEnumFrame
    /\ UNCHANGED << connected, fatal, argVars, round_num, total_success,
                    total_failed, passes, enums, pauses, sum_success, sum_failed,
                    mainVars >>

(***************************************************************************)
(* list_groups (lines 170-185)                                             *)
(***************************************************************************)
\* line 172: the call of get_all_groups
ListGroupsCall ==
    /\ dialogs' \in GroupDialogLists
    /\ di' = 0
    /\ acc' = << >>
    /\ gcaller' = "list"
    /\ enumFailed' = FALSE
    /\ gret' = << >>
    /\ pc' = "g_iter"
    /\ NoSendFrame
    /\ NoBroadcastFrame
    /\ UNCHANGED connected

(***************************************************************************)
(* main (lines 204-326)                                                    *)
(***************************************************************************)
\* the engine is not running: main is at an input() prompt
EngineIdle == pc \in {"idle", "b_done", "l_done"}

AtMenu == mpc = "menu" /\ EngineIdle /\ menus < MaxMenus

\* lines 215-221: start() returned; the initial listing begins
StartOk ==
    /\ mpc = "start"
    /\ mpc' = "menu"
    /\ ListGroupsCall
    /\ UNCHANGED << menus, menu_errors, stops >>

\* lines 215, 323-326: start() raised; finally: stop()
StartRaise ==
    /\ mpc = "start"
    /\ mpc' = "stopped"
    /\ stops' = stops + 1
    /\ connected' = FALSE
    /\ UNCHANGED << pc, dialogs, fatal, enumVars, argVars, bcastVars, sendVars,
                    menus, menu_errors >>

\* lines 230-232: choice 1
MenuList ==
    /\ AtMenu
    /\ menus' = menus + 1
    /\ ListGroupsCall
    /\ UNCHANGED << mpc, menu_errors, stops >>

\* lines 234-249: choice 2
MenuDefault ==
    /\ AtMenu
    /\ menus' = menus + 1
    /\ BroadcastCall(2, 10, {})
    /\ UNCHANGED << connected, mpc, menu_errors, stops >>

\* lines 251-275: choice 3; an empty message goes back to the menu
MenuCustom ==
    /\ AtMenu
    /\ menus' = menus + 1
    /\ \E empty_msg \in BOOLEAN, rounds_input \in RoundsInputs, delay_input \in DelayInputs :
         IF empty_msg
         THEN UNCHANGED << pc, provVars, enumVars, argVars, bcastVars, sendVars,
                           mpc, menu_errors, stops >>
         ELSE IF IsDigit(rounds_input) /\ IntRaises(rounds_input)
         THEN /\ menu_errors' = menu_errors + 1
              /\ mpc' = "handler"
              /\ UNCHANGED << pc, provVars, enumVars, argVars, bcastVars,
                              sendVars, stops >>
         ELSE LET r == IF IsDigit(rounds_input) THEN ParseInt(rounds_input) ELSE 1
              IN  IF r > 1 /\ IsDigit(delay_input) /\ IntRaises(delay_input)
                  THEN /\ menu_errors' = menu_errors + 1
                       /\ mpc' = "handler"
                       /\ UNCHANGED << pc, provVars, enumVars, argVars, bcastVars,
                                       sendVars, stops >>
                  ELSE /\ BroadcastCall(r,
                             IF r > 1
                             THEN IF IsDigit(delay_input) THEN ParseInt(delay_input) ELSE 10
                             ELSE 0,
                             {})
                       /\ UNCHANGED << connected, mpc, menu_errors, stops >>

\* lines 277-304: choice 4; an empty message or a non-digit input goes back to the menu
MenuAdvanced ==
    /\ AtMenu
    /\ menus' = menus + 1
    /\ \E empty_msg \in BOOLEAN, rounds_input \in RoundsInputs, delay_input \in DelayInputs :
         IF empty_msg \/ ~IsDigit(rounds_input)
         THEN UNCHANGED << pc, provVars, enumVars, argVars, bcastVars, sendVars,
                           mpc, menu_errors, stops >>
         ELSE IF IntRaises(rounds_input)
         THEN /\ menu_errors' = menu_errors + 1
              /\ mpc' = "handler"
              /\ UNCHANGED << pc, provVars, enumVars, argVars, bcastVars,
                              sendVars, stops >>
         ELSE IF ~IsDigit(delay_input)
         THEN UNCHANGED << pc, provVars, enumVars, argVars, bcastVars, sendVars,
                           mpc, menu_errors, stops >>
         ELSE IF IntRaises(delay_input)
         THEN /\ menu_errors' = menu_errors + 1
              /\ mpc' = "handler"
              /\ UNCHANGED << pc, provVars, enumVars, argVars, bcastVars,
                              sendVars, stops >>
         ELSE /\ BroadcastCall(ParseInt(rounds_input), ParseInt(delay_input), {})
              /\ UNCHANGED << connected, mpc, menu_errors, stops >>

\* lines 306-308, 325-326: choice 5: break; finally: stop()
MenuExit ==
    /\ mpc = "menu"
    /\ EngineIdle
    /\ mpc' = "stopped"
    /\ stops' = stops + 1
    /\ connected' = FALSE
    /\ UNCHANGED << pc, dialogs, fatal, enumVars, argVars, bcastVars, sendVars,
                    menus, menu_errors >>

\* lines 310-311: any other choice
MenuInvalid ==
    /\ AtMenu
    /\ menus' = menus + 1
    /\ UNCHANGED << pc, provVars, enumVars, argVars, bcastVars, sendVars, mpc,
                    menu_errors, stops >>

\* line 321: Enter at the prompt of the except clause: back to the menu
HandlerContinue ==
    /\ mpc = "handler"
    /\ mpc' = "menu"
    /\ UNCHANGED << pc, provVars, enumVars, argVars, bcastVars, sendVars,
                    menus, menu_errors, stops >>

\* lines 321, 323-326: the prompt of the except clause raises (end of
\* input, Ctrl-C): no clause of the inner try applies; finally: stop()
HandlerRaise ==
    /\ mpc = "handler"
    /\ mpc' = "stopped"
    /\ stops' = stops + 1
    /\ connected' = FALSE
    /\ UNCHANGED << pc, dialogs, fatal, enumVars, argVars, bcastVars, sendVars,
                    menus, menu_errors >>

\* lines 229, 314, 316-318, 325-326: Ctrl-C at a prompt of the menu loop:
\* input() raises KeyboardInterrupt, the loop is left; finally: stop()
MenuInterrupt ==
    /\ mpc = "menu"
    /\ EngineIdle
    /\ mpc' = "stopped"
    /\ stops' = stops + 1
    /\ connected' = FALSE
    /\ UNCHANGED << pc, dialogs, fatal, enumVars, argVars, bcastVars, sendVars,
                    menus, menu_errors >>

\* mutant: the interrupt ends main without the finally clause
AwaitInterrupt_NoFinally ==
    /\ mpc = "menu"
    /\ ~EngineIdle
    /\ mpc' = "stopped"
    /\ pc' = "idle"
    /\ NoSendFrame
    /\ NoEnumFrame
    /\ NoBroadcastFrame
    /\ UNCHANGED << connected, menus, menu_errors, stops >>

\* lines 221, 232, 244, 270, 299, 325-326: Ctrl-C while main awaits the
\* listing or a broadcast: the awaiting calls are unwound by an exception
\* that is no Exception, whether or not line 316 catches it; finally: stop()
AwaitInterrupt ==
    /\ mpc = "menu"
    /\ ~EngineIdle
    /\ mpc' = "stopped"
    /\ stops' = stops + 1
    /\ connected' = FALSE
    /\ pc' = "idle"
    /\ NoSendFrame
    /\ NoEnumFrame
    /\ NoBroadcastFrame
    /\ UNCHANGED << menus, menu_errors >>

(***************************************************************************)
(* Specifications                                                          *)
(***************************************************************************)
\* the state the engine's variables have before any call
EngineReset ==
    /\ connected = TRUE
    /\ di = 0
    /\ acc = << >>
    /\ gret = << >>
    /\ round_num = 0
    /\ total_success = 0
    /\ total_failed = 0
    /\ ret = "pending"
    /\ summary = "none"
    /\ groups = << >>
    /\ gi = 0
    /\ successful_sends = 0
    /\ failed_sends = 0
    /\ menus = 0
    /\ menu_errors = 0
    /\ stops = 0
    /\ log = << >>
    /\ retry_flood = {}
    /\ passes = 0
    /\ enums = 0
    /\ pauses = << >>
    /\ sum_success = 0
    /\ sum_failed = 0
    /\ enumFailed = FALSE
    /\ fatal = FALSE

\* a direct call of broadcast_with_delay with arbitrary arguments
Init ==
    /\ EngineReset
    /\ pc = "b_loop"
    /\ mpc = "direct"
    /\ gcaller = "send"
    /\ dialogs = << >>
    /\ rounds \in RoundsArgs
    /\ delay_between_rounds \in DelayArgs
    /\ exclude_ids \in ExcludeArgs

Next ==
    \/ RoundStart \/ IterDialog \/ IterEnd \/ IterRaise
    \/ ForNext \/ SendOk \/ SendFloodWait \/ RetrySend \/ RetryOk \/ RetryFail
    \/ SendForbidden \/ SendBanned \/ SendOther \/ ForEnd
    \/ PauseEnd \/ BroadcastFinish

Spec == Init /\ [][Next]_vars

\* the same call under the scheduling of asyncio: the event loop resumes the
\* one task whenever the call or the sleep it awaits is over, and every
\* provider call and every sleep comes to an end
LiveSpec == Init /\ [][Next]_vars /\ WF_vars(Next)

\* a run of main
MainInit ==
    /\ EngineReset
    /\ pc = "idle"
    /\ mpc = "start"
    /\ gcaller = "list"
    /\ dialogs = << >>
    /\ rounds = 0
    /\ delay_between_rounds = 0
    /\ exclude_ids = {}

MainNext ==
    \/ StartOk \/ StartRaise
    \/ MenuList \/ MenuDefault \/ MenuCustom \/ MenuAdvanced \/ MenuExit \/ MenuInvalid
    \/ HandlerContinue \/ HandlerRaise \/ MenuInterrupt \/ AwaitInterrupt
    \/ Next

MainSpec == MainInit /\ [][MainNext]_vars

\* a direct call of get_all_groups on any dialog list
CatalogInit ==
    /\ EngineReset
    /\ pc = "g_iter"
    /\ mpc = "direct"
    /\ gcaller = "api"
    /\ dialogs \in DialogLists
    /\ rounds = 0
    /\ delay_between_rounds = 0
    /\ exclude_ids = {}

CatalogNext == IterDialog \/ IterEnd \/ IterRaise

CatalogSpec == CatalogInit /\ [][CatalogNext]_vars

(***************************************************************************)
(* Properties                                                              *)
(***************************************************************************)
IsSend(e) == e.ev = "send"
IsFirstSend(e) == e.ev = "send" /\ ~e.retry
IdsOf(s) == [i \in 1..Len(s) |-> s[i].id]
IdSet(s) == { s[i].id : i \in 1..Len(s) }
NotExcluded(g) == g.id \notin exclude_ids
IsExcluded(g) == g.id \in exclude_ids

\* the entries of the snapshot that are excluded, by position
ExcludedEntries == { i \in 1..Len(groups) : groups[i].id \in exclude_ids }

\* positions of the log's sends to destination d
SendsTo(d) == { k \in 1..Len(log) : log[k].ev = "send" /\ log[k].id = d }

\* a call of send_to_all_groups_once has returned and the next has not begun
RoundComplete == pc \in {"b_sleep", "b_loop"} /\ passes > 0

\* a call of send_to_all_groups_once holds a snapshot, or has just returned
SnapshotHeld == pc \in {"s_loop", "s_send", "s_wait", "s_retry", "b_sleep", "b_loop"}

\* C1: when a round completes, successes + failures + excluded entries of the
\* snapshot = length of the snapshot, and the successes and failures are all
\* outcomes of sends to destinations that are not excluded.
C1_RoundAccounting ==
    RoundComplete =>
        /\ successful_sends + failed_sends + Cardinality(ExcludedEntries) = Len(groups)
        /\ successful_sends + failed_sends = Len(SelectSeq(log, IsFirstSend))
        /\ \A k \in 1..Len(log) : log[k].id \notin exclude_ids

C1_Witness ==
    /\ RoundComplete
    /\ Len(groups) = 3
    /\ Cardinality(ExcludedEntries) = 1
    /\ successful_sends = 1
    /\ failed_sends = 1

\* C2: within a round a destination gets at most two sends, of which at most
\* one is a retry; a retry that raises (a rate-limit error included) counts the
\* destination as failed once and leads to the next group, with no further send
\* to it.
C2_Attempts ==
    SnapshotHeld =>
        \A d \in IdSet(groups) :
            /\ Cardinality(SendsTo(d)) <= 2
            /\ Cardinality({ k \in SendsTo(d) : log[k].retry }) <= 1
            /\ Cardinality({ k \in SendsTo(d) : ~log[k].retry }) <= 1

C2_RetryRaised ==
    (pc = "s_retry" /\ pc' # "s_retry" /\ successful_sends' = successful_sends) =>
        /\ failed_sends' = failed_sends + 1
        /\ pc' = "s_loop"
        /\ gi' = gi
        /\ log' = log

\* C2: at most two sends per destination and round, one of them a retry, and
\* a retry that raises counts one failure and ends the destination.
C2_RetryAtMostOnce == [](C2_Attempts) /\ [][C2_RetryRaised]_vars

\* a retry has failed: the destination has its two sends and one failure
C2_Witness ==
    /\ pc = "s_loop"
    /\ gi = 1
    /\ Cardinality(SendsTo(groups[1].id)) = 2
    /\ failed_sends = 1
    /\ successful_sends = 0

\* C3: a call with rounds = R >= 1 makes R passes and R - 1 inter-round
\* sleeps of delay_between_rounds: one after each pass but the last.
C3_RoundsAndPauses ==
    (mpc = "direct" /\ rounds >= 1) =>
        /\ passes <= rounds
        /\ \A k \in 1..Len(pauses) : pauses[k] = delay_between_rounds
        /\ (pc \in {"g_iter", "s_loop", "s_send", "s_wait", "s_retry"}
              => Len(pauses) = passes - 1)
        /\ (pc = "b_sleep" => Len(pauses) = passes /\ passes < rounds)
        /\ (pc = "b_loop" => Len(pauses) = IF passes < rounds THEN passes ELSE passes - 1)
        /\ (pc = "b_done" => passes = rounds /\ Len(pauses) = rounds - 1)

C3_Witness ==
    /\ pc = "b_done"
    /\ rounds = 3
    /\ passes = 3
    /\ Len(pauses) = 2
    /\ sum_failed > 0
    /\ sum_success > 0

\* C4: the first sends of a round go to the snapshot's entries that are not
\* excluded, in snapshot order (up to the current group while the round runs);
\* no send goes to an excluded destination; attempted and skipped destinations
\* are disjoint and are the whole snapshot when the round completes.
C4_FirstSendsAreFilteredSnapshot ==
    SnapshotHeld =>
        /\ IdsOf(SelectSeq(log, IsFirstSend)) =
               IdsOf(SelectSeq(SubSeq(groups, 1, gi), NotExcluded))
        /\ \A k \in 1..Len(log) : log[k].id \notin exclude_ids
        /\ IdSet(SelectSeq(log, IsSend)) \cap IdSet(SelectSeq(groups, IsExcluded)) = {}
        /\ (RoundComplete =>
               /\ gi = Len(groups)
               /\ IdSet(SelectSeq(log, IsSend)) \cup IdSet(SelectSeq(groups, IsExcluded))
                      = IdSet(groups))

\* destinations [1, 2, 4] with 2 excluded: the sends go to [1, 4]
C4_Witness ==
    /\ RoundComplete
    /\ IdsOf(groups) = << 1, 2, 4 >>
    /\ exclude_ids = {2}
    /\ IdsOf(SelectSeq(log, IsFirstSend)) = << 1, 4 >>

\* C5: whatever the sends raised, a completed round has reached the end of its
\* snapshot and has sent to every destination that is not excluded, and a
\* finished broadcast has run all its rounds.
C5_ErrorsDoNotStopTheRun ==
    /\ (RoundComplete =>
           /\ gi = Len(groups)
           /\ \A i \in 1..Len(groups) :
                  groups[i].id \notin exclude_ids =>
                      \E k \in 1..Len(log) : IsFirstSend(log[k]) /\ log[k].idx = i)
    /\ (pc = "b_done" =>
           /\ ret # "raised"
           /\ passes = IF rounds > 0 THEN rounds ELSE 0)
    /\ (pc = "b_loop" /\ passes > 0 => round_num = passes)

\* second round, all three sends of it failed, one after a failed retry
C5_Witness ==
    /\ RoundComplete
    /\ passes = 2
    /\ sum_failed > 0
    /\ Len(groups) = 3
    /\ exclude_ids = {}
    /\ failed_sends = 3
    /\ \E k \in 1..Len(log) : log[k].ev = "send" /\ log[k].retry /\ log[k].idx = 1

\* C6: a FloodWaitError of w seconds on a first send is followed at once by a
\* sleep of w + 1 and then, as the next send, by the retry to the same
\* destination; a retry is preceded by exactly that; a retry that returns
\* counts one success.
C6_LogShape ==
    SnapshotHeld =>
        \A k \in 1..Len(log) :
            /\ (log[k].ev = "flood" =>
                   /\ k > 1 /\ IsFirstSend(log[k - 1]) /\ log[k - 1].idx = log[k].idx
                   /\ k < Len(log)
                   /\ log[k + 1].ev = "sleep"
                   /\ log[k + 1].idx = log[k].idx
                   /\ log[k + 1].dur = log[k].dur + 1
                   /\ (k + 1 < Len(log) =>
                          /\ log[k + 2].ev = "send"
                          /\ log[k + 2].retry
                          /\ log[k + 2].id = log[k].id)
                   /\ (k + 1 = Len(log) => pc = "s_wait"))
            /\ (log[k].ev = "send" /\ log[k].retry =>
                   k > 2 /\ log[k - 1].ev = "sleep" /\ log[k - 2].ev = "flood"
                         /\ log[k - 1].idx = log[k].idx)
            /\ (log[k].ev = "sleep" => k > 1 /\ log[k - 1].ev = "flood")

C6_RetryReturned ==
    (pc = "s_retry" /\ pc' # "s_retry" /\ failed_sends' = failed_sends) =>
        /\ successful_sends' = successful_sends + 1
        /\ pc' = "s_loop"
        /\ gi' = gi

\* C6: FloodWaitError(w), then a sleep of w + 1, then the retry to the same
\* destination as the next send; a retry that returns counts one success.
C6_FloodWaitThenRetry == [](C6_LogShape) /\ [][C6_RetryReturned]_vars

\* A returns, B raises FloodWaitError(5) and its retry returns, C raises:
\* 2 successes, 1 failure, a sleep of 6
C6_Witness ==
    /\ RoundComplete
    /\ Len(groups) = 3
    /\ Len(log) = 6
    /\ log[1].ev = "send" /\ log[1].idx = 1
    /\ log[2].ev = "send" /\ log[2].idx = 2
    /\ log[3].ev = "flood" /\ log[3].dur = 5
    /\ log[4].ev = "sleep" /\ log[4].dur = 6
    /\ log[5].ev = "send" /\ log[5].retry /\ log[5].idx = 2
    /\ log[6].ev = "send" /\ log[6].idx = 3
    /\ successful_sends = 2
    /\ failed_sends = 1

C8_Step ==
    fatal =>
        /\ passes' = passes
        /\ Len(SelectSeq(log', IsSend)) <= Len(SelectSeq(log, IsSend))

\* C8: a session failure ends the broadcast: no send and no round follows it.
C8_SessionFailureEndsBroadcast == [][C8_Step]_vars

\* C9: when the enumeration raised, get_all_groups returned (it did not
\* raise) and what it returned is the empty list.
C9_EnumerationFailureGivesEmpty ==
    /\ (pc = "g_done" /\ enumFailed => gret = << >>)
    /\ (enumFailed => pc = "g_done")

\* the failure came after two dialogs had been accepted
C9_Witness ==
    /\ pc = "g_done"
    /\ enumFailed
    /\ Len(acc) = 2
    /\ gret = << >>

\* C10 as claimed: main calls broadcast_with_delay with rounds >= 1 only, and
\* a broadcast makes at least one pass.
C10_MenuRoundsAtLeastOne ==
    /\ (pc \in {"b_loop", "b_sleep", "b_done"} => rounds >= 1)
    /\ (pc = "b_done" => passes >= 1)


\* C11: every dialog already enumerated whose entity is a Channel with
\* megagroup set is in the list under construction as a 'supergroup',
\* whatever its broadcast flag; so it is in the list returned.
C11_MegagroupIsSupergroup ==
    /\ (pc \in {"g_iter", "g_done"} =>
           \A i \in 1..di :
               (dialogs[i].cls = "Channel" /\ dialogs[i].megagroup) =>
                   \E k \in 1..Len(acc) :
                       acc[k] = [id |-> dialogs[i].id, type |-> "supergroup"])
    /\ (pc = "g_done" /\ ~enumFailed =>
           \A i \in 1..Len(dialogs) :
               (dialogs[i].cls = "Channel" /\ dialogs[i].megagroup) =>
                   \E k \in 1..Len(gret) :
                       gret[k] = [id |-> dialogs[i].id, type |-> "supergroup"])

\* a megagroup with broadcast set and one without are both returned
C11_Witness ==
    /\ pc = "g_done"
    /\ ~enumFailed
    /\ \E i, j \in 1..Len(dialogs) :
           /\ dialogs[i].megagroup /\ dialogs[i].broadcast
           /\ dialogs[j].megagroup /\ ~dialogs[j].broadcast
    /\ \E k \in 1..Len(gret) : gret[k] = [id |-> 5, type |-> "supergroup"]
    /\ \E k \in 1..Len(gret) : gret[k] = [id |-> 2, type |-> "supergroup"]

\* the dialog with this id
DialogOf(i) == CHOOSE e \in Entities : e.id = i
InCatalog(e) == e.id \in IdSet(gret)

\* C12: the catalog returned holds no broadcast-only channel and no dialog
\* that is neither a Chat nor a Channel; every Chat is in it as a 'group';
\* its entries are in the order of the dialog list.
C12_CatalogContents ==
    (pc = "g_done" /\ ~enumFailed) =>
        /\ \A k \in 1..Len(gret) :
               /\ gret[k].id \in IdSet(dialogs)
               /\ DialogOf(gret[k].id).cls \in {"Chat", "Channel"}
               /\ ~(DialogOf(gret[k].id).cls = "Channel"
                      /\ DialogOf(gret[k].id).broadcast
                      /\ ~DialogOf(gret[k].id).megagroup)
        /\ \A i \in 1..Len(dialogs) :
               dialogs[i].cls = "Chat" =>
                   \E k \in 1..Len(gret) : gret[k] = [id |-> dialogs[i].id, type |-> "group"]
        /\ IdsOf(gret) = IdsOf(SelectSeq(dialogs, InCatalog))

\* [group 1, supergroup 2, broadcast channel 3] resolves to [1, 2]
C12_Witness ==
    /\ pc = "g_done"
    /\ ~enumFailed
    /\ IdsOf(dialogs) = << 1, 2, 3 >>
    /\ gret = << [id |-> 1, type |-> "group"], [id |-> 2, type |-> "supergroup"] >>

IsFlood(e) == e.ev = "flood" /\ ~e.retry

\* sends issued whose call has neither returned nor raised
InFlight ==
    Len(SelectSeq(log, IsSend))
        - (successful_sends + failed_sends + Len(SelectSeq(log, IsFlood)))

\* C13: at most one send is in flight, and it is in flight exactly while the
\* engine awaits it; while the first send to a destination is in flight every
\* earlier destination of the round has its final outcome; the events of the
\* round follow the snapshot's order.
C13_OneSendAtATime ==
    SnapshotHeld =>
        /\ InFlight \in {0, 1}
        /\ (InFlight = 1 <=> pc \in {"s_send", "s_retry"})
        /\ (pc \in {"s_send", "s_wait", "s_retry"} =>
               /\ successful_sends + failed_sends = Len(SelectSeq(log, IsFirstSend)) - 1
               /\ log[Len(log)].idx = gi)
        /\ (pc \in {"s_loop", "b_sleep", "b_loop"} =>
               successful_sends + failed_sends = Len(SelectSeq(log, IsFirstSend)))
        /\ \A k \in 2..Len(log) : log[k - 1].idx <= log[k].idx

\* the send to the second destination is in flight, after the first one's
\* cooldown and retry
C13_Witness ==
    /\ pc = "s_send"
    /\ gi = 2
    /\ Len(log) = 5
    /\ log[4].ev = "send" /\ log[4].retry /\ log[4].idx = 1
    /\ log[5].ev = "send" /\ log[5].idx = 2
    /\ successful_sends + failed_sends = 1

\* C14: a call of broadcast_with_delay comes to its end, whatever the provider
\* raises on sends, retries and enumerations.
C14_BroadcastCompletes == <>(pc = "b_done")

\* three rounds done in which no send succeeded
C14_Witness ==
    /\ pc = "b_done"
    /\ rounds = 3
    /\ passes = 3
    /\ sum_success = 0
    /\ sum_failed >= 6

\* the dialogs that get_all_groups puts in the catalog
InDialogCatalog(e) == Classify(e) # << >>

\* C15: each round resolves the catalog once, and the snapshot a round sends
\* to is the one resolved from the dialogs of that round: every send of the
\* round goes to a destination of that snapshot.
C15_SnapshotPerRound ==
    (mpc = "direct" /\ passes > 0) =>
        /\ enums = passes
        /\ passes = round_num
        /\ (SnapshotHeld =>
               /\ IdsOf(groups) =
                      IF enumFailed THEN << >> ELSE IdsOf(SelectSeq(dialogs, InDialogCatalog))
               /\ \A k \in 1..Len(log) :
                      /\ log[k].id \in IdSet(dialogs)
                      /\ log[k].id = groups[log[k].idx].id)

\* round 1 had one destination; round 2 resolved [1, 2] and sent to both
C15_Witness ==
    /\ RoundComplete
    /\ passes = 2
    /\ exclude_ids = {}
    /\ (sum_success + sum_failed) - (successful_sends + failed_sends) = 1
    /\ IdsOf(dialogs) = << 1, 2 >>
    /\ IdsOf(SelectSeq(log, IsFirstSend)) = << 1, 2 >>

\* the retries and the sleeps of the round are those that a FloodWaitError on
\* a first attempt caused, and nothing else stands between two destinations
C16_RetryIffFlood ==
    SnapshotHeld =>
        \A k \in 1..Len(log) :
            /\ (log[k].ev = "send" /\ log[k].retry) =>
                   /\ k >= 4
                   /\ log[k - 1].ev = "sleep"
                   /\ IsFlood(log[k - 2]) /\ log[k - 2].idx = log[k].idx
                   /\ IsFirstSend(log[k - 3]) /\ log[k - 3].idx = log[k].idx
            /\ IsFlood(log[k]) =>
                   /\ k >= 2
                   /\ IsFirstSend(log[k - 1]) /\ log[k - 1].idx = log[k].idx
                   /\ IF k + 2 <= Len(log)
                      THEN /\ log[k + 2].ev = "send" /\ log[k + 2].retry
                           /\ log[k + 2].idx = log[k].idx
                      ELSE pc = "s_wait" /\ gi = log[k].idx /\ k + 1 = Len(log)
            /\ log[k].ev = "sleep" => (k >= 2 /\ IsFlood(log[k - 1]))
            /\ (IsFirstSend(log[k]) /\ k >= 2) =>
                   /\ log[k - 1].ev = "send"
                   /\ log[k - 1].idx < log[k].idx

\* a first attempt that ends without a FloodWaitError settles its destination
\* at once: one more outcome is counted, nothing is slept, nothing is sent
C16_NoRetryStep ==
    (pc = "s_send" /\ pc' # "s_wait") =>
        /\ pc' = "s_loop"
        /\ log' = log
        /\ gi' = gi
        /\ successful_sends' >= successful_sends
        /\ failed_sends' >= failed_sends
        /\ successful_sends' + failed_sends' = successful_sends + failed_sends + 1

\* C16: a destination gets a second attempt in a round if and only if its
\* first attempt raised a rate-limit error; after any other error it is
\* counted as failed once, not retried, and the next send follows with no wait.
C16_RetryOnlyAfterRateLimit == [](C16_RetryIffFlood) /\ [][C16_NoRetryStep]_vars

\* the first attempt to destination 1 failed without a retry and the send to
\* destination 2 has been issued
C16_Witness ==
    /\ pc = "s_send"
    /\ gi = 2
    /\ Len(log) = 2
    /\ IsFirstSend(log[1]) /\ log[1].idx = 1
    /\ IsFirstSend(log[2]) /\ log[2].idx = 2
    /\ failed_sends = 1
    /\ successful_sends = 0

\* while the FloodWaitError of a retry is the latest outcome of the round, the
\* last thing the engine did for that destination is the retry itself: no
\* sleep follows it, and the next send, once issued, comes right after it
C17_NoSleepAfterRetry ==
    (SnapshotHeld /\ retry_flood # {}) =>
        /\ pc \in {"s_loop", "s_send"}
        /\ failed_sends >= 1
        /\ LET n == Len(log)
           IN  IF pc = "s_loop"
               THEN /\ n >= 4
                    /\ log[n].ev = "send" /\ log[n].retry
                    /\ log[n].idx <= gi
               ELSE /\ n >= 5
                    /\ IsFirstSend(log[n]) /\ log[n].idx = gi
                    /\ log[n - 1].ev = "send" /\ log[n - 1].retry
                    /\ log[n - 1].idx < gi

\* the step in which the retry raises the FloodWaitError counts the failure
\* and sleeps nothing, and the step that issues the next send adds that send
\* and nothing else
C17_RetryFloodStep ==
    /\ (retry_flood = {} /\ retry_flood' # {}) =>
           /\ pc = "s_retry"
           /\ pc' = "s_loop"
           /\ failed_sends' = failed_sends + 1
           /\ successful_sends' = successful_sends
           /\ log' = log
           /\ gi' = gi
    /\ (retry_flood # {} /\ pc = "s_loop" /\ pc' = "s_send") =>
           /\ gi' > gi
           /\ log' = Append(log, [ev |-> "send", idx |-> gi', id |-> groups[gi'].id,
                                  retry |-> FALSE, dur |-> 0])
           /\ retry_flood' = retry_flood

\* C17: when the retry raises a rate-limit error with a new wait w2, the
\* engine does not sleep w2: the destination is counted as failed and the next
\* send of the round is issued with no pause in between.
C17_SecondRateLimitNotAwaited == [](C17_NoSleepAfterRetry) /\ [][C17_RetryFloodStep]_vars

\* the retry to destination 1 raised a FloodWaitError of 5 seconds and the send
\* to destination 2 is already in flight
C17_Witness ==
    /\ pc = "s_send"
    /\ retry_flood = {5}
    /\ gi = 2
    /\ Len(log) = 5
    /\ log[4].ev = "send" /\ log[4].retry /\ log[4].idx = 1
    /\ IsFirstSend(log[5]) /\ log[5].idx = 2
    /\ failed_sends = 1

\* a round whose catalog is empty has sent nothing and counted nothing, and
\* it is a round like any other: the pause follows it unless it is the last,
\* and the broadcast ends only after all its rounds
C18_EmptyRoundState ==
    (mpc = "direct" /\ rounds >= 1) =>
        /\ (RoundComplete /\ groups = << >>) =>
               /\ log = << >>
               /\ successful_sends = 0 /\ failed_sends = 0
               /\ total_success = sum_success /\ total_failed = sum_failed
               /\ passes = round_num /\ passes <= rounds
               /\ (pc = "b_sleep" => passes < rounds /\ Len(pauses) = passes)
               /\ (passes < rounds => Len(pauses) = passes)
               /\ (passes = rounds => pc = "b_loop" /\ Len(pauses) = passes - 1)
        /\ (pc = "b_done" => passes = rounds /\ enums = rounds /\ ret # "raised")

\* the enumeration that gives the empty catalog adds nothing to the totals,
\* and the round that follows an empty one resolves the catalog again
C18_EmptyRoundStep ==
    /\ (pc = "g_iter" /\ pc' # "g_iter" /\ groups' = << >>) =>
           /\ pc' \in {"b_sleep", "b_loop"}
           /\ << total_success', total_failed', sum_success', sum_failed' >>
                  = << total_success, total_failed, sum_success, sum_failed >>
           /\ log' = << >>
    /\ (RoundComplete /\ groups = << >> /\ pc = "b_loop" /\ passes < rounds) =>
           /\ pc' = "g_iter"
           /\ enums' = enums + 1
           /\ passes' = passes + 1

\* C18: a round whose catalog resolves to the empty sequence, a swallowed
\* enumeration failure included, sends nothing, adds 0 successes and 0
\* failures, counts as one of the rounds, is followed by the pause unless it
\* is the last, and the next round resolves the catalog again.
C18_EmptyRoundIsARound == [](C18_EmptyRoundState) /\ [][C18_EmptyRoundStep]_vars

\* round 2 of 3 lost its catalog to an enumeration failure after a first
\* round that sent, and the pause before round 3 is running
C18_Witness ==
    /\ pc = "b_sleep"
    /\ rounds = 3
    /\ passes = 2
    /\ enumFailed
    /\ groups = << >>
    /\ log = << >>
    /\ sum_success > 0
    /\ Len(pauses) = 2

\* stop() has been called at most once, exactly when main is over, and then
\* the engine is at rest and the session is closed
C19_StoppedOnce ==
    /\ stops \in {0, 1}
    /\ (mpc = "stopped" <=> stops = 1)
    /\ (mpc \in {"handler", "stopped"} => EngineIdle)
    /\ (mpc = "stopped" => ~connected)

\* stop() is the last thing main does: no step follows it, so no send does;
\* an exception caught by the menu loop leaves main in the loop, at the
\* prompt of its except clause, with the session as it was
C19_Step ==
    /\ mpc # "stopped"
    /\ (stops' # stops => stops' = 1 /\ mpc' = "stopped")
    /\ (mpc' = "stopped" => stops' = stops + 1)
    /\ (menu_errors' # menu_errors =>
           /\ mpc = "menu" /\ mpc' = "handler"
           /\ stops' = stops
           /\ connected' = connected)

\* C19: however main ends, stop() is called exactly once and after the last
\* send; an exception raised inside a menu action neither ends the menu loop
\* nor disconnects the session.
C19_StopOnceAtTheEnd == [](C19_StoppedOnce) /\ [][C19_Step]_vars

\* main ended after a broadcast that sent and after an exception that the
\* menu loop caught
C19_Witness ==
    /\ mpc = "stopped"
    /\ stops = 1
    /\ menu_errors = 1
    /\ sum_success > 0
    /\ pc = "b_done"

=============================================================================
